---- MODULE Spec2Model ----
(***************************************************************************)
(* Model of the reconciliation ("cruce") engine of indeciBotDjango:        *)
(*   - the key normalizer, the join and the discrepancy classifier of      *)
(*     core/services/CruceService.py, as operators over strings;           *)
(*   - the life cycle of a Cruce: creation (generar_cruce_view), the       *)
(*     generar_cruce task, the manual retry (CruceRetryView) and the       *)
(*     deletion of a report (SET_NULL on the Cruce's references).          *)
(* Strings are TLA+ strings; Python's str methods are modelled with Len,   *)
(* SubSeq and \o.                                                          *)
(***************************************************************************)
EXTENDS Integers, Sequences, FiniteSets, Bags, TLC

(***************************************************************************)
(* Python str helpers                                                      *)
(***************************************************************************)

\* s[i] as a one-character string
CharAt(s, i) == SubSeq(s, i, i)

\* Python: sub in s
Contains(s, sub) ==
    \E i \in 1..(Len(s) - Len(sub) + 1) : SubSeq(s, i, i + Len(sub) - 1) = sub

UpperAlpha == "ABCDEFGHIJKLMNOPQRSTUVWXYZ"
LowerAlpha == "abcdefghijklmnopqrstuvwxyz"

UpperSet == {CharAt(UpperAlpha, i) : i \in 1..26}

LowerMap ==
    [c \in UpperSet |-> CharAt(LowerAlpha, CHOOSE i \in 1..26 : CharAt(UpperAlpha, i) = c)]

LowerChar(c) == IF c \in UpperSet THEN LowerMap[c] ELSE c

RECURSIVE Lower(_)
\* Python: s.lower() (ASCII letters)
Lower(s) == IF Len(s) = 0 THEN "" ELSE LowerChar(CharAt(s, 1)) \o Lower(SubSeq(s, 2, Len(s)))

\* index of the first occurrence of sub in s at or after position from, 0 if none
FindFrom(s, sub, from) ==
    LET hits == {i \in from..(Len(s) - Len(sub) + 1) : SubSeq(s, i, i + Len(sub) - 1) = sub}
    IN IF hits = {} THEN 0 ELSE CHOOSE i \in hits : \A j \in hits : i <= j

RECURSIVE Split(_, _)
\* Python: s.split(sep), a sequence of strings
Split(s, sep) ==
    LET k == FindFrom(s, sep, 1)
    IN IF k = 0 THEN <<s>>
       ELSE <<SubSeq(s, 1, k - 1)>> \o Split(SubSeq(s, k + Len(sep), Len(s)), sep)

RECURSIVE Replace(_, _, _)
\* Python: s.replace(old, new): every non-overlapping occurrence, left to right
Replace(s, old, new) ==
    LET k == FindFrom(s, old, 1)
    IN IF k = 0 THEN s
       ELSE SubSeq(s, 1, k - 1) \o new \o Replace(SubSeq(s, k + Len(old), Len(s)), old, new)

Digits == "0123456789"

DigitSet == {CharAt(Digits, i) : i \in 1..10}

DigitMap == [c \in DigitSet |-> (CHOOSE i \in 1..10 : CharAt(Digits, i) = c) - 1]

IsDigit(c) == c \in DigitSet

DigitVal(c) == DigitMap[c]

RECURSIVE StripLeft(_)
StripLeft(s) == IF Len(s) > 0 /\ CharAt(s, 1) = " " THEN StripLeft(SubSeq(s, 2, Len(s))) ELSE s

RECURSIVE StripRight(_)
StripRight(s) ==
    IF Len(s) > 0 /\ CharAt(s, Len(s)) = " " THEN StripRight(SubSeq(s, 1, Len(s) - 1)) ELSE s

\* the body of an int literal: digits, with single '_' allowed between digits
IsIntBody(b) ==
    /\ Len(b) > 0
    /\ \A i \in 1..Len(b) : IsDigit(CharAt(b, i)) \/ CharAt(b, i) = "_"
    /\ IsDigit(CharAt(b, 1))
    /\ IsDigit(CharAt(b, Len(b)))
    /\ \A i \in 1..(Len(b) - 1) : ~(CharAt(b, i) = "_" /\ CharAt(b, i + 1) = "_")

RECURSIVE BodyVal(_, _)
BodyVal(b, acc) ==
    IF Len(b) = 0 THEN acc
    ELSE IF CharAt(b, 1) = "_" THEN BodyVal(SubSeq(b, 2, Len(b)), acc)
    ELSE BodyVal(SubSeq(b, 2, Len(b)), 10 * acc + DigitVal(CharAt(b, 1)))

\* Python: int(s).  ok = FALSE stands for ValueError.
\* (a '-' sign cannot reach int() here: the argument is a piece of split('-'))
PyInt(s) ==
    LET t    == StripRight(StripLeft(s))
        body == IF Len(t) > 0 /\ CharAt(t, 1) = "+" THEN SubSeq(t, 2, Len(t)) ELSE t
    IN IF IsIntBody(body) THEN [ok |-> TRUE, val |-> BodyVal(body, 0)]
       ELSE [ok |-> FALSE, val |-> 0]

RECURSIVE NatToStr(_)
\* Python: f"{n}" for n >= 0
NatToStr(n) ==
    IF n < 10 THEN CharAt(Digits, n + 1)
    ELSE NatToStr(n \div 10) \o CharAt(Digits, (n % 10) + 1)

(***************************************************************************)
(* Platform transaction records (core/models.py)                           *)
(*   vtex   : [numero_pedido, numero_transaccion, medio_pago, seller,      *)
(*             estado]                                                     *)
(*   payway : [numero_transaccion, estado]                                 *)
(*   cdp    : [numero_pedido, estado]                                      *)
(*   janis  : [numero_pedido, estado]                                      *)
(* An optional record (Python None or an object) is a sequence of length   *)
(* 0 or 1.  Timestamps and amounts are carried through unread by the       *)
(* engine and are left out.                                                *)
(***************************************************************************)

None == <<>>

Some(r) == <<r>>

IsSome(o) == Len(o) = 1

KEYWORDS_FOOD == <<"carrefour", "hiper", "maxi", "market", "express", "trelew">>

estados_entregado == <<"delivered", "inDelivery", "readyForDelivery",
                       "readyForInternalDistribution", "en auditoria",
                       "procesandoPromociones">>

estados_entregados == <<"finalizado", "disponible en drive", "disponible en sucursal",
                        "disponible en sede", "pendiente de despacho",
                        "pendiente de de envio a pup", "recepcion pendiente">>

estados_no_entregados == <<"Pre autorizada", "Vencida">>

\* TransaccionJanis.estado_entregado
janis_estado_entregado(t) ==
    \E i \in 1..Len(estados_entregado) : Contains(t.estado, estados_entregado[i])

\* a delivered test that compares the status with its case kept
cdp_estado_entregado_sin_lower(t) ==
    \E i \in 1..Len(estados_entregados) :
        Contains(t.estado, Lower(estados_entregados[i]))

\* TransaccionCDP.estado_entregado
cdp_estado_entregado(t) ==
    \E i \in 1..Len(estados_entregados) :
        Contains(Lower(t.estado), Lower(estados_entregados[i]))

\* TransaccionPayway.estado_no_cobrado
estado_no_cobrado(t) ==
    \E i \in 1..Len(estados_no_entregados) : Contains(t.estado, estados_no_entregados[i])

\* TransaccionVtex.pedido_electro
pedido_electro(t) == t.seller = "Hogar & Electro"

\* TransaccionVtex.pedido_food
pedido_food(t) ==
    \E i \in 1..Len(KEYWORDS_FOOD) : Contains(Lower(t.seller), Lower(KEYWORDS_FOOD[i]))

\* a marketplace test that forgets the food sellers
pedido_marketplace_sin_food(t) == ~pedido_electro(t)

\* TransaccionVtex.pedido_marketplace
pedido_marketplace(t) == ~pedido_electro(t) /\ ~pedido_food(t)

(***************************************************************************)
(* Discrepancy classifier: CruceService.calcular_resultado_cruce           *)
(***************************************************************************)

MsgCobrarManual == "Cobrar manualmente desde Payway, estado verificando factura en vtex"
MsgLevantarTicket == "Levantar ticket a WebCenterpedido no existe en decidir"
MsgEntregadoNoFacturado == "Verificar, entregado pero no facturado"
MsgAnuladoNoCancelado == "Verificar, anulado pero no cancelado en vtex"
MsgNoCobrado == "Verificar, no cobrado en Payway"
MsgAnuladoPreautorizado == "Verificar, anulado pero preautorizado en payway"
MsgNoFacturado == "Verificar, no facturado"
MsgMarketplace == "Avisar a marketplace"

\* a classifier whose electronics rule has no exemption for 'Cancelado'
calcular_resultado_cruce_sin_cancelado(vtex, payway, cdp, janis) ==
    IF ~IsSome(vtex) THEN ""
    ELSE
    LET v == vtex[1]
        cdp_entregado     == IF IsSome(cdp) THEN cdp_estado_entregado(cdp[1]) ELSE FALSE
        janis_entregado   == IF IsSome(janis) THEN janis_estado_entregado(janis[1]) ELSE FALSE
        payway_no_cobrado == IF IsSome(payway) THEN estado_no_cobrado(payway[1]) ELSE FALSE
        cdp_anulado       == IsSome(cdp) /\ cdp[1].estado = "Anulado sin factura"
        janis_cancelado   == IsSome(janis) /\ janis[1].estado = "canceled"
    IN
    IF v.estado = "Verificando Fatura"
    THEN IF IsSome(payway) /\ payway[1].estado = "Pre autorizada"
         THEN MsgCobrarManual
         ELSE MsgLevantarTicket
    ELSE IF /\ v.medio_pago # ""
            /\ Contains(v.medio_pago, "MercadoPagoPro")
            /\ ~(pedido_electro(v) \/ pedido_marketplace(v))
    THEN IF cdp_entregado \/ janis_entregado
         THEN IF v.estado # "Faturado" THEN MsgEntregadoNoFacturado ELSE ""
         ELSE IF cdp_anulado \/ janis_cancelado
         THEN IF v.estado = "Pagamento Aprovado" THEN MsgAnuladoNoCancelado ELSE ""
         ELSE ""
    ELSE IF pedido_food(v)
    THEN IF cdp_entregado \/ janis_entregado
         THEN IF v.estado # "Faturado" THEN MsgEntregadoNoFacturado
              ELSE IF payway_no_cobrado THEN MsgNoCobrado
              ELSE ""
         ELSE IF cdp_anulado \/ janis_cancelado
         THEN IF v.estado = "Pagamento Aprovado" THEN MsgAnuladoNoCancelado
              ELSE IF IsSome(payway) /\ payway[1].estado = "Pre autorizada"
              THEN MsgAnuladoPreautorizado
              ELSE ""
         ELSE ""
    ELSE IF pedido_electro(v)
    THEN IF payway_no_cobrado THEN MsgNoCobrado
         ELSE IF v.estado # "Faturado" THEN MsgNoFacturado
         ELSE ""
    ELSE IF pedido_marketplace(v)
    THEN IF v.estado # "Faturado" THEN MsgMarketplace ELSE ""
    ELSE ""

\* a classifier whose 'Verificando Fatura' rule applies to food sellers only
calcular_resultado_cruce_verificando_food(vtex, payway, cdp, janis) ==
    IF ~IsSome(vtex) THEN ""
    ELSE
    LET v == vtex[1]
        cdp_entregado     == IF IsSome(cdp) THEN cdp_estado_entregado(cdp[1]) ELSE FALSE
        janis_entregado   == IF IsSome(janis) THEN janis_estado_entregado(janis[1]) ELSE FALSE
        payway_no_cobrado == IF IsSome(payway) THEN estado_no_cobrado(payway[1]) ELSE FALSE
        cdp_anulado       == IsSome(cdp) /\ cdp[1].estado = "Anulado sin factura"
        janis_cancelado   == IsSome(janis) /\ janis[1].estado = "canceled"
    IN
    IF v.estado = "Verificando Fatura" /\ pedido_food(v)
    THEN IF IsSome(payway) /\ payway[1].estado = "Pre autorizada"
         THEN MsgCobrarManual
         ELSE MsgLevantarTicket
    ELSE IF /\ v.medio_pago # ""
            /\ Contains(v.medio_pago, "MercadoPagoPro")
            /\ ~(pedido_electro(v) \/ pedido_marketplace(v))
    THEN IF cdp_entregado \/ janis_entregado
         THEN IF v.estado # "Faturado" THEN MsgEntregadoNoFacturado ELSE ""
         ELSE IF cdp_anulado \/ janis_cancelado
         THEN IF v.estado = "Pagamento Aprovado" THEN MsgAnuladoNoCancelado ELSE ""
         ELSE ""
    ELSE IF pedido_food(v)
    THEN IF cdp_entregado \/ janis_entregado
         THEN IF v.estado # "Faturado" THEN MsgEntregadoNoFacturado
              ELSE IF payway_no_cobrado THEN MsgNoCobrado
              ELSE ""
         ELSE IF cdp_anulado \/ janis_cancelado
         THEN IF v.estado = "Pagamento Aprovado" THEN MsgAnuladoNoCancelado
              ELSE IF IsSome(payway) /\ payway[1].estado = "Pre autorizada"
              THEN MsgAnuladoPreautorizado
              ELSE ""
         ELSE ""
    ELSE IF pedido_electro(v)
    THEN IF payway_no_cobrado THEN MsgNoCobrado
         ELSE IF v.estado # "Faturado" /\ v.estado # "Cancelado" THEN MsgNoFacturado
         ELSE ""
    ELSE IF pedido_marketplace(v)
    THEN IF v.estado # "Faturado" THEN MsgMarketplace ELSE ""
    ELSE ""

calcular_resultado_cruce(vtex, payway, cdp, janis) ==
    IF ~IsSome(vtex) THEN ""
    ELSE
    LET v == vtex[1]
        cdp_entregado     == IF IsSome(cdp) THEN cdp_estado_entregado(cdp[1]) ELSE FALSE
        janis_entregado   == IF IsSome(janis) THEN janis_estado_entregado(janis[1]) ELSE FALSE
        payway_no_cobrado == IF IsSome(payway) THEN estado_no_cobrado(payway[1]) ELSE FALSE
        cdp_anulado       == IsSome(cdp) /\ cdp[1].estado = "Anulado sin factura"
        janis_cancelado   == IsSome(janis) /\ janis[1].estado = "canceled"
    IN
    IF v.estado = "Verificando Fatura"
    THEN IF IsSome(payway) /\ payway[1].estado = "Pre autorizada"
         THEN MsgCobrarManual
         ELSE MsgLevantarTicket
    ELSE IF /\ v.medio_pago # ""
            /\ Contains(v.medio_pago, "MercadoPagoPro")
            /\ ~(pedido_electro(v) \/ pedido_marketplace(v))
    THEN IF cdp_entregado \/ janis_entregado
         THEN IF v.estado # "Faturado" THEN MsgEntregadoNoFacturado ELSE ""
         ELSE IF cdp_anulado \/ janis_cancelado
         THEN IF v.estado = "Pagamento Aprovado" THEN MsgAnuladoNoCancelado ELSE ""
         ELSE ""
    ELSE IF pedido_food(v)
    THEN IF cdp_entregado \/ janis_entregado
         THEN IF v.estado # "Faturado" THEN MsgEntregadoNoFacturado
              ELSE IF payway_no_cobrado THEN MsgNoCobrado
              ELSE ""
         ELSE IF cdp_anulado \/ janis_cancelado
         THEN IF v.estado = "Pagamento Aprovado" THEN MsgAnuladoNoCancelado
              ELSE IF IsSome(payway) /\ payway[1].estado = "Pre autorizada"
              THEN MsgAnuladoPreautorizado
              ELSE ""
         ELSE ""
    ELSE IF pedido_electro(v)
    THEN IF payway_no_cobrado THEN MsgNoCobrado
         ELSE IF v.estado # "Faturado" /\ v.estado # "Cancelado" THEN MsgNoFacturado
         ELSE ""
    ELSE IF pedido_marketplace(v)
    THEN IF v.estado # "Faturado" THEN MsgMarketplace ELSE ""
    ELSE ""

(***************************************************************************)
(* Key normalizer: CruceService.convertir_pedido_transaccion_payway        *)
(* ok = FALSE stands for the exception the code raises: IndexError when    *)
(* the order number has no '-', ValueError when int() rejects the suffix.  *)
(***************************************************************************)

convertir_pedido_transaccion_payway(pedido_vtex) ==
    LET partes == Split(pedido_vtex, "-")
    IN IF Len(partes) < 2 THEN [ok |-> FALSE, val |-> ""]
       ELSE IF ~PyInt(partes[2]).ok THEN [ok |-> FALSE, val |-> ""]
       ELSE [ok |-> TRUE, val |-> partes[1] \o "-" \o NatToStr(PyInt(partes[2]).val)]

(***************************************************************************)
(* Reconciliation join: CruceService.cruzar_transacciones                  *)
(***************************************************************************)

\* {t.numero_pedido: t for t in lista}.get(k): the last record wins
por_pedido(lista, k) ==
    LET idx == {i \in 1..Len(lista) : lista[i].numero_pedido = k}
    IN IF idx = {} THEN None
       ELSE Some(lista[CHOOSE i \in idx : \A j \in idx : j <= i])

\* {t.numero_transaccion: t for t in lista}.get(k)
por_transaccion(lista, k) ==
    LET idx == {i \in 1..Len(lista) : lista[i].numero_transaccion = k}
    IN IF idx = {} THEN None
       ELSE Some(lista[CHOOSE i \in idx : \A j \in idx : j <= i])

\* set(vtex_por_pedido.keys())
todos_los_pedidos(transacciones_vtex) ==
    {transacciones_vtex[i].numero_pedido : i \in 1..Len(transacciones_vtex)}

\* a payment lookup without the second path (the transaction number of the
\* order record)
buscar_payway_sin_respaldo(pedido, vtex, transacciones_payway) ==
    LET pedido_convertido == convertir_pedido_transaccion_payway(pedido).val
    IN IF IsSome(por_transaccion(transacciones_payway, pedido_convertido))
       THEN [payway  |-> por_transaccion(transacciones_payway, pedido_convertido),
             payway2 |-> por_transaccion(transacciones_payway,
                                         Replace(pedido_convertido, "-1", "-2"))]
       ELSE [payway |-> None, payway2 |-> None]

\* a payment lookup that tries the transaction number of the order record
\* first and the normalized key second
buscar_payway_transaccion_primero(pedido, vtex, transacciones_payway) ==
    LET pedido_convertido == convertir_pedido_transaccion_payway(pedido).val
    IN IF IsSome(vtex)
          /\ IsSome(por_transaccion(transacciones_payway, vtex[1].numero_transaccion))
       THEN [payway  |-> por_transaccion(transacciones_payway, vtex[1].numero_transaccion),
             payway2 |-> por_transaccion(transacciones_payway,
                                         Replace(vtex[1].numero_transaccion, "-1", "-2"))]
       ELSE IF IsSome(por_transaccion(transacciones_payway, pedido_convertido))
       THEN [payway  |-> por_transaccion(transacciones_payway, pedido_convertido),
             payway2 |-> por_transaccion(transacciones_payway,
                                         Replace(pedido_convertido, "-1", "-2"))]
       ELSE [payway |-> None, payway2 |-> None]

\* the two payment lookups of one iteration of the loop: [payway, payway2]
buscar_payway(pedido, vtex, transacciones_payway) ==
    LET pedido_convertido == convertir_pedido_transaccion_payway(pedido).val
    IN IF IsSome(por_transaccion(transacciones_payway, pedido_convertido))
       THEN [payway  |-> por_transaccion(transacciones_payway, pedido_convertido),
             payway2 |-> por_transaccion(transacciones_payway,
                                         Replace(pedido_convertido, "-1", "-2"))]
       ELSE IF IsSome(vtex)
               /\ IsSome(por_transaccion(transacciones_payway, vtex[1].numero_transaccion))
       THEN [payway  |-> por_transaccion(transacciones_payway, vtex[1].numero_transaccion),
             payway2 |-> por_transaccion(transacciones_payway,
                                         Replace(vtex[1].numero_transaccion, "-1", "-2"))]
       ELSE [payway |-> None, payway2 |-> None]

\* a row builder whose secondary-OMS status falls back to the empty string
fila_cruzada_janis_vacio(pedido, transacciones_vtex, transacciones_payway, transacciones_cdp, transacciones_janis) ==
    LET vtex  == por_pedido(transacciones_vtex, pedido)
        cdp   == por_pedido(transacciones_cdp, Split(pedido, "-")[1])
        janis == por_pedido(transacciones_janis, pedido)
        pw    == buscar_payway(pedido, vtex, transacciones_payway)
    IN [numero_pedido   |-> pedido,
        medio_pago      |-> IF IsSome(vtex) THEN vtex[1].medio_pago ELSE "N/A",
        seller          |-> IF IsSome(vtex) THEN vtex[1].seller ELSE "N/A",
        estado_vtex     |-> IF IsSome(vtex) THEN vtex[1].estado ELSE "N/A",
        estado_payway   |-> IF IsSome(pw.payway) THEN pw.payway[1].estado ELSE "N/A",
        estado_payway_2 |-> IF IsSome(pw.payway2) THEN pw.payway2[1].estado ELSE "N/A",
        estado_cdp      |-> IF IsSome(cdp) THEN cdp[1].estado ELSE "N/A",
        estado_janis    |-> IF IsSome(janis) THEN janis[1].estado ELSE "",
        resultado_cruce |-> calcular_resultado_cruce(vtex, pw.payway, cdp, janis)]

\* the body of the loop for one order number: the row appended
fila_cruzada(pedido, transacciones_vtex, transacciones_payway, transacciones_cdp, transacciones_janis) ==
    LET vtex  == por_pedido(transacciones_vtex, pedido)
        cdp   == por_pedido(transacciones_cdp, Split(pedido, "-")[1])
        janis == por_pedido(transacciones_janis, pedido)
        pw    == buscar_payway(pedido, vtex, transacciones_payway)
    IN [numero_pedido   |-> pedido,
        medio_pago      |-> IF IsSome(vtex) THEN vtex[1].medio_pago ELSE "N/A",
        seller          |-> IF IsSome(vtex) THEN vtex[1].seller ELSE "N/A",
        estado_vtex     |-> IF IsSome(vtex) THEN vtex[1].estado ELSE "N/A",
        estado_payway   |-> IF IsSome(pw.payway) THEN pw.payway[1].estado ELSE "N/A",
        estado_payway_2 |-> IF IsSome(pw.payway2) THEN pw.payway2[1].estado ELSE "N/A",
        estado_cdp      |-> IF IsSome(cdp) THEN cdp[1].estado ELSE "N/A",
        estado_janis    |-> IF IsSome(janis) THEN janis[1].estado ELSE "N/A",
        resultado_cruce |-> calcular_resultado_cruce(vtex, pw.payway, cdp, janis)]

\* The returned list as a bag of rows: the loop iterates over a Python set, so
\* the order of the list is unspecified; one row is appended per iteration.
\* ok = FALSE: the normalizer raised inside the loop (line 220 is not inside
\* any try block) and the exception leaves cruzar_transacciones.
cruzar_transacciones(transacciones_vtex, transacciones_payway, transacciones_cdp, transacciones_janis) ==
    IF \E p \in todos_los_pedidos(transacciones_vtex) :
           ~convertir_pedido_transaccion_payway(p).ok
    THEN [ok |-> FALSE, filas |-> EmptyBag]
    ELSE [ok |-> TRUE,
          filas |-> SetToBag({fila_cruzada(p, transacciones_vtex, transacciones_payway,
                                           transacciones_cdp, transacciones_janis) :
                              p \in todos_los_pedidos(transacciones_vtex)})]

(***************************************************************************)
(* Persistent state and processes                                          *)
(***************************************************************************)

Plataformas == {"vtex", "payway", "cdp", "janis"}

\* Cruce.Estado (the four report models declare the same choices)
PENDIENTE == "PENDIENTE"
PROCESANDO == "PROCESANDO"
COMPLETADO == "COMPLETADO"
ERROR == "ERROR"

\* fecha_realizado is NULL or the date of the day (date.today())
NULL == "NULL"
HOY == "HOY"

\* bounds of the model
MaxCruces == 1
MaxTareas == 3
MaxReintentos == 2
MaxEliminaciones == 1
MaxVtex == 2
MaxPayway == 1

VARIABLES
    datos,       \* the transactions of the report of each platform
    reportes,    \* the platforms whose report exists (one report per platform)
    cruces,      \* the Cruce table: sequence of rows, index = id
    filas,       \* the TransaccionCruce table: bag of [cruce, fila]
    tareas,      \* generar_cruce_async tasks, queued, running or finished
    reintentos,  \* CruceRetryView.post requests, in flight or finished
    eliminados,  \* number of reports deleted so far
    resultado    \* the value returned by the function applied (specifications of
                 \* the join, the classifier and the normalizer only)

vars == <<datos, reportes, cruces, filas, tareas, reintentos, eliminados, resultado>>

\* a deleted Cruce row: the id stays allocated
CruceBorrado == [vivo |-> FALSE, estado |-> PENDIENTE, fecha_realizado |-> NULL, refs |-> {}]

\* the in-memory Cruce object of a process that holds none
SinObjeto == [estado |-> PENDIENTE, fecha_realizado |-> NULL, refs |-> {}]

SinResultado == [hecho |-> FALSE, ok |-> FALSE, filas |-> EmptyBag]

Existe(c) == c \in 1..Len(cruces) /\ cruces[c].vivo

\* the fields of the persisted row as a model instance
Objeto(c) == [estado |-> cruces[c].estado,
              fecha_realizado |-> cruces[c].fecha_realizado,
              refs |-> cruces[c].refs]

\* Model.save() on a Cruce instance: every field is written (UPDATE, or INSERT
\* when the row was deleted meanwhile).  The database is SQLite with foreign
\* keys enforced: writing a reference to a deleted report raises
\* IntegrityError.  falla is any other failure of the database.
PuedeGuardar(obj, falla) == ~falla /\ obj.refs \subseteq reportes

\* a save that writes the first row of the table, whatever the instance
Guardado_primera_fila(c, obj) ==
    [cruces EXCEPT ![1] = [vivo |-> TRUE, estado |-> obj.estado,
                           fecha_realizado |-> obj.fecha_realizado,
                           refs |-> obj.refs]]

Guardado(c, obj) ==
    [cruces EXCEPT ![c] = [vivo |-> TRUE, estado |-> obj.estado,
                           fecha_realizado |-> obj.fecha_realizado,
                           refs |-> obj.refs]]

\* the transactions a task holds for platform p
Transacciones(t, p) == IF p \in t.con_datos THEN datos[p] ELSE <<>>

\* rows of a Cruce, as a bag
FilasDe(c) == [f \in {g \in DOMAIN filas : g.cruce = c} |-> filas[f]]

\* async_task(...): a new queued task
NuevaTarea(c, args) ==
    [cruce_id |-> c, args |-> args, pc |-> "cola", cruce |-> SinObjeto,
     con_datos |-> {}, ret |-> "", log |-> <<>>]

\* the entry of a task's log for the Cruce it loaded
CARGADO == "CARGADO"

\* a task that returned: its locals are gone; the value returned and the log
\* (the Cruce loaded and the statuses the task persisted, a history kept for
\* the properties) remain
Terminada(t, ret, log) ==
    [t EXCEPT !.pc = "fin", !.cruce = SinObjeto, !.con_datos = {}, !.ret = ret, !.log = log]

(***************************************************************************)
(* Requests of the web layer (core/views.py)                               *)
(***************************************************************************)

\* generar_cruce_view with a valid form: at least two reports selected.  The
\* Cruce is created PENDIENTE with its references, then the task is enqueued;
\* an exception of async_task is caught and the Cruce stays without a task.
generar_cruce_view(sel, encola) ==
    /\ Len(cruces) < MaxCruces
    /\ sel \subseteq reportes
    /\ Cardinality(sel) >= 2
    /\ encola => Len(tareas) < MaxTareas
    /\ cruces' = Append(cruces, [vivo |-> TRUE, estado |-> PENDIENTE,
                                 fecha_realizado |-> NULL, refs |-> sel])
    /\ tareas' = IF encola THEN Append(tareas, NuevaTarea(Len(cruces) + 1, sel)) ELSE tareas
    /\ UNCHANGED <<datos, reportes, filas, reintentos, eliminados, resultado>>

\* a deletion of a report that empties every reference of the Cruces
EliminarReporte_todas(p) ==
    /\ p \in reportes
    /\ eliminados < MaxEliminaciones
    /\ reportes' = reportes \ {p}
    /\ eliminados' = eliminados + 1
    /\ cruces' = [c \in 1..Len(cruces) |-> [cruces[c] EXCEPT !.refs = {}]]
    /\ UNCHANGED <<datos, filas, tareas, reintentos, resultado>>

\* Reporte*DeleteView: the report and its transactions are deleted; every
\* Cruce that references it gets NULL in that reference (on_delete=SET_NULL)
EliminarReporte(p) ==
    /\ p \in reportes
    /\ eliminados < MaxEliminaciones
    /\ reportes' = reportes \ {p}
    /\ eliminados' = eliminados + 1
    /\ cruces' = [c \in 1..Len(cruces) |-> [cruces[c] EXCEPT !.refs = @ \ {p}]]
    /\ UNCHANGED <<datos, filas, tareas, reintentos, resultado>>

\* a deletion of a Cruce that leaves its rows in the table
EliminarCruce_sin_cascada(c) ==
    /\ Existe(c)
    /\ cruces' = [cruces EXCEPT ![c] = CruceBorrado]
    /\ UNCHANGED <<datos, reportes, filas, tareas, reintentos, eliminados, resultado>>

\* CruceDeleteView: the Cruce and its rows are deleted (on_delete=CASCADE)
EliminarCruce(c) ==
    /\ Existe(c)
    /\ cruces' = [cruces EXCEPT ![c] = CruceBorrado]
    /\ filas' = [f \in {g \in DOMAIN filas : g.cruce # c} |-> filas[f]]
    /\ UNCHANGED <<datos, reportes, tareas, reintentos, eliminados, resultado>>

\* CruceRetryView.post, first part: the Cruce is read and its status checked.
\* The development server handles requests in threads, so another request or
\* a task may run between the read and the write below.
ReintentarLeer(c) ==
    /\ Existe(c)
    /\ Len(reintentos) < MaxReintentos
    /\ reintentos' = Append(reintentos,
                        IF cruces[c].estado # ERROR
                        THEN [cruce_id |-> c, pc |-> "rechazado", cruce |-> SinObjeto]
                        ELSE [cruce_id |-> c, pc |-> "leido", cruce |-> Objeto(c)])
    /\ UNCHANGED <<datos, reportes, cruces, filas, tareas, eliminados, resultado>>

\* CruceRetryView.post, second part: PENDIENTE is saved and the task enqueued
\* with the report ids of the instance read.  A failed save leaves the view
\* with an exception; an exception of async_task is caught.
ReintentarGuardar(r, encola) ==
    /\ r \in 1..Len(reintentos)
    /\ reintentos[r].pc = "leido"
    /\ LET c   == reintentos[r].cruce_id
           obj == [reintentos[r].cruce EXCEPT !.estado = PENDIENTE]
       IN IF ~PuedeGuardar(obj, FALSE)
          THEN /\ reintentos' = [reintentos EXCEPT ![r] =
                                    [cruce_id |-> c, pc |-> "abortado", cruce |-> SinObjeto]]
               /\ UNCHANGED <<cruces, tareas>>
          ELSE /\ encola => Len(tareas) < MaxTareas
               /\ cruces' = Guardado(c, obj)
               /\ tareas' = IF encola THEN Append(tareas, NuevaTarea(c, obj.refs))
                            ELSE tareas
               /\ reintentos' = [reintentos EXCEPT ![r] =
                                    [cruce_id |-> c,
                                     pc |-> IF encola THEN "encolado" ELSE "sin_tarea",
                                     cruce |-> SinObjeto]]
    /\ UNCHANGED <<datos, reportes, filas, eliminados, resultado>>

(***************************************************************************)
(* The task: CruceService.generar_cruce, one action per database operation *)
(***************************************************************************)

\* an exception handler that saves the instance without setting ERROR on it
capturar_sin_error(i, inst, falla) ==
    LET t   == tareas[i]
        obj == inst
    IN IF PuedeGuardar(obj, falla)
       THEN /\ cruces' = Guardado(t.cruce_id, obj)
            /\ tareas' = [tareas EXCEPT ![i] = Terminada(t, "False", Append(t.log, ERROR))]
       ELSE /\ cruces' = cruces
            /\ tareas' = [tareas EXCEPT ![i] = Terminada(t, "False", t.log)]

\* except Exception: ERROR is set on the instance and saved, a failure of that
\* save is swallowed, and False is returned
capturar(i, inst, falla) ==
    LET t   == tareas[i]
        obj == [inst EXCEPT !.estado = ERROR]
    IN IF PuedeGuardar(obj, falla)
       THEN /\ cruces' = Guardado(t.cruce_id, obj)
            /\ tareas' = [tareas EXCEPT ![i] = Terminada(t, "False", Append(t.log, ERROR))]
       ELSE /\ cruces' = cruces
            /\ tareas' = [tareas EXCEPT ![i] = Terminada(t, "False", t.log)]

\* a load that goes on with an empty instance when the Cruce does not exist
ObtenerCruce_sin_verificar(i) ==
    /\ i \in 1..Len(tareas)
    /\ tareas[i].pc = "cola"
    /\ tareas' = [tareas EXCEPT ![i] =
                    IF Existe(tareas[i].cruce_id)
                    THEN [@ EXCEPT !.pc = "cargado", !.cruce = Objeto(tareas[i].cruce_id),
                                   !.log = <<CARGADO>>]
                    ELSE [@ EXCEPT !.pc = "cargado", !.cruce = SinObjeto,
                                   !.log = <<CARGADO>>]]
    /\ UNCHANGED <<datos, reportes, cruces, filas, reintentos, eliminados, resultado>>

\* Cruce.objects.get(id=cruce_id); Cruce.DoesNotExist returns False
ObtenerCruce(i) ==
    /\ i \in 1..Len(tareas)
    /\ tareas[i].pc = "cola"
    /\ tareas' = [tareas EXCEPT ![i] =
                    IF Existe(tareas[i].cruce_id)
                    THEN [@ EXCEPT !.pc = "cargado", !.cruce = Objeto(tareas[i].cruce_id),
                                   !.log = <<CARGADO>>]
                    ELSE Terminada(@, "False", @.log)]
    /\ UNCHANGED <<datos, reportes, cruces, filas, reintentos, eliminados, resultado>>

\* cruce.estado = PROCESANDO; cruce.save()
GuardarProcesando(i, falla, falla2) ==
    /\ i \in 1..Len(tareas)
    /\ tareas[i].pc = "cargado"
    /\ LET t   == tareas[i]
           obj == [t.cruce EXCEPT !.estado = PROCESANDO]
       IN IF PuedeGuardar(obj, falla)
          THEN /\ cruces' = Guardado(t.cruce_id, obj)
               /\ tareas' = [tareas EXCEPT ![i] =
                               [t EXCEPT !.pc = "procesando", !.cruce = obj,
                                         !.log = Append(t.log, PROCESANDO)]]
          ELSE capturar(i, obj, falla2)
    /\ UNCHANGED <<datos, reportes, filas, reintentos, eliminados, resultado>>

\* a report lookup that also looks up the ids that are None
ObtenerReportes_exige_todos(i, falla2) ==
    /\ i \in 1..Len(tareas)
    /\ tareas[i].pc = "procesando"
    /\ IF tareas[i].args = Plataformas /\ tareas[i].args \subseteq reportes
       THEN /\ tareas' = [tareas EXCEPT ![i].pc = "reportes"]
            /\ cruces' = cruces
       ELSE capturar(i, tareas[i].cruce, falla2)
    /\ UNCHANGED <<datos, reportes, filas, reintentos, eliminados, resultado>>

\* Reporte*.objects.get(id=...) for each id given; DoesNotExist is an Exception
ObtenerReportes(i, falla2) ==
    /\ i \in 1..Len(tareas)
    /\ tareas[i].pc = "procesando"
    /\ IF tareas[i].args \subseteq reportes
       THEN /\ tareas' = [tareas EXCEPT ![i].pc = "reportes"]
            /\ cruces' = cruces
       ELSE capturar(i, tareas[i].cruce, falla2)
    /\ UNCHANGED <<datos, reportes, filas, reintentos, eliminados, resultado>>

\* list(reporte.transacciones.all()) for each report obtained: the rows of a
\* report deleted since then are gone and the list is empty
ObtenerTransacciones(i) ==
    /\ i \in 1..Len(tareas)
    /\ tareas[i].pc = "reportes"
    /\ tareas' = [tareas EXCEPT ![i].pc = "transacciones",
                                ![i].con_datos = tareas[i].args \cap reportes]
    /\ UNCHANGED <<datos, reportes, cruces, filas, reintentos, eliminados, resultado>>

\* guardar_transacciones_cruce: the rows to insert, each bound to the Cruce
FilasNuevas(c, fs) ==
    [g \in {[cruce |-> c, fila |-> f] : f \in DOMAIN fs} |-> fs[g.fila]]

\* a join step that goes on to the final save without inserting the rows
CruzarYGuardar_sin_insertar(i, falla, falla2) ==
    /\ i \in 1..Len(tareas)
    /\ tareas[i].pc = "transacciones"
    /\ LET t == tareas[i]
           r == cruzar_transacciones(Transacciones(t, "vtex"), Transacciones(t, "payway"),
                                     Transacciones(t, "cdp"), Transacciones(t, "janis"))
       IN IF ~r.ok
          THEN capturar(i, t.cruce, falla2) /\ filas' = filas
          ELSE IF r.filas = EmptyBag
          THEN /\ tareas' = [tareas EXCEPT ![i].pc = "guardado"]
               /\ UNCHANGED <<cruces, filas>>
          ELSE IF ~falla /\ Existe(t.cruce_id)
          THEN /\ filas' = filas
               /\ tareas' = [tareas EXCEPT ![i].pc = "guardado"]
               /\ cruces' = cruces
          ELSE capturar(i, t.cruce, falla2) /\ filas' = filas
    /\ UNCHANGED <<datos, reportes, reintentos, eliminados, resultado>>

\* cruzar_transacciones, then guardar_transacciones_cruce: nothing is written
\* for an empty list; otherwise one bulk_create, atomic, which fails when the
\* Cruce row is gone (foreign key) or when the database fails
CruzarYGuardar(i, falla, falla2) ==
    /\ i \in 1..Len(tareas)
    /\ tareas[i].pc = "transacciones"
    /\ LET t == tareas[i]
           r == cruzar_transacciones(Transacciones(t, "vtex"), Transacciones(t, "payway"),
                                     Transacciones(t, "cdp"), Transacciones(t, "janis"))
       IN IF ~r.ok
          THEN capturar(i, t.cruce, falla2) /\ filas' = filas
          ELSE IF r.filas = EmptyBag
          THEN /\ tareas' = [tareas EXCEPT ![i].pc = "guardado"]
               /\ UNCHANGED <<cruces, filas>>
          ELSE IF ~falla /\ Existe(t.cruce_id)
          THEN /\ filas' = filas (+) FilasNuevas(t.cruce_id, r.filas)
               /\ tareas' = [tareas EXCEPT ![i].pc = "guardado"]
               /\ cruces' = cruces
          ELSE capturar(i, t.cruce, falla2) /\ filas' = filas
    /\ UNCHANGED <<datos, reportes, reintentos, eliminados, resultado>>

\* a final save that sets COMPLETADO and leaves fecha_realizado as it was
GuardarCompletado_sin_fecha(i, falla, falla2) ==
    /\ i \in 1..Len(tareas)
    /\ tareas[i].pc = "guardado"
    /\ LET t   == tareas[i]
           obj == [t.cruce EXCEPT !.estado = COMPLETADO]
       IN IF PuedeGuardar(obj, falla)
          THEN /\ cruces' = Guardado(t.cruce_id, obj)
               /\ tareas' = [tareas EXCEPT ![i] =
                               Terminada(t, "True", Append(t.log, COMPLETADO))]
          ELSE capturar(i, obj, falla2)
    /\ UNCHANGED <<datos, reportes, filas, reintentos, eliminados, resultado>>

\* cruce.estado = COMPLETADO; cruce.fecha_realizado = date.today(); cruce.save()
GuardarCompletado(i, falla, falla2) ==
    /\ i \in 1..Len(tareas)
    /\ tareas[i].pc = "guardado"
    /\ LET t   == tareas[i]
           obj == [t.cruce EXCEPT !.estado = COMPLETADO, !.fecha_realizado = HOY]
       IN IF PuedeGuardar(obj, falla)
          THEN /\ cruces' = Guardado(t.cruce_id, obj)
               /\ tareas' = [tareas EXCEPT ![i] =
                               Terminada(t, "True", Append(t.log, COMPLETADO))]
          ELSE capturar(i, obj, falla2)
    /\ UNCHANGED <<datos, reportes, filas, reintentos, eliminados, resultado>>

(***************************************************************************)
(* The contents of the reports                                             *)
(***************************************************************************)

V(np, nt, mp, se, es) ==
    [numero_pedido |-> np, numero_transaccion |-> nt, medio_pago |-> mp,
     seller |-> se, estado |-> es]

P(nt, es) == [numero_transaccion |-> nt, estado |-> es]

C(np, es) == [numero_pedido |-> np, estado |-> es]

\* the data sets a run works on: a regular one, one with an order number
\* without separator, and one whose order-platform report has no records
Escenarios ==
    { [vtex   |-> <<V("7-01", "7-1", "Visa", "Carrefour Hiper", "Faturado"),
                    V("8-01", "8-1", "Visa", "Samsung", "Pendiente")>>,
       payway |-> <<P("7-1", "Aprobada")>>,
       cdp    |-> <<C("7", "Finalizado")>>,
       janis  |-> <<C("7-01", "delivered")>>],
      [vtex   |-> <<V("NOSEPARATOR", "9-1", "Visa", "Carrefour Hiper", "Faturado")>>,
       payway |-> <<P("9-1", "Aprobada")>>,
       cdp    |-> <<>>,
       janis  |-> <<>>],
      [vtex   |-> <<>>,
       payway |-> <<P("7-1", "Aprobada")>>,
       cdp    |-> <<C("7", "Finalizado")>>,
       janis  |-> <<>>] }

\* the selections of reports submitted with the create-run form
Selecciones == {{"vtex", "payway"}, {"payway", "cdp"}, Plataformas}

(***************************************************************************)
(* Specification of the life cycle of a Cruce                              *)
(***************************************************************************)

Init ==
    /\ datos \in Escenarios
    /\ reportes = Plataformas
    /\ cruces = <<>>
    /\ filas = EmptyBag
    /\ tareas = <<>>
    /\ reintentos = <<>>
    /\ eliminados = 0
    /\ resultado = SinResultado

Next ==
    \/ \E sel \in Selecciones, encola \in BOOLEAN : generar_cruce_view(sel, encola)
    \/ \E p \in Plataformas : EliminarReporte(p)
    \/ \E c \in 1..MaxCruces : EliminarCruce(c)
    \/ \E c \in 1..MaxCruces : ReintentarLeer(c)
    \/ \E r \in 1..MaxReintentos, encola \in BOOLEAN : ReintentarGuardar(r, encola)
    \/ \E i \in 1..MaxTareas : ObtenerCruce(i)
    \/ \E i \in 1..MaxTareas, falla \in BOOLEAN, falla2 \in BOOLEAN :
           GuardarProcesando(i, falla, falla2)
    \/ \E i \in 1..MaxTareas, falla2 \in BOOLEAN : ObtenerReportes(i, falla2)
    \/ \E i \in 1..MaxTareas : ObtenerTransacciones(i)
    \/ \E i \in 1..MaxTareas, falla \in BOOLEAN, falla2 \in BOOLEAN :
           CruzarYGuardar(i, falla, falla2)
    \/ \E i \in 1..MaxTareas, falla \in BOOLEAN, falla2 \in BOOLEAN :
           GuardarCompletado(i, falla, falla2)

Spec == Init /\ [][Next]_vars

\* task i is about to run cruzar_transacciones and guardar_transacciones_cruce:
\* the step is then enabled, whatever the data and the outcome
PorCruzar(i) == i \in 1..Len(tareas) /\ tareas[i].pc = "transacciones"

\* the worker process is not terminated: it takes every queued task and runs
\* generar_cruce_async to its return, each step with whatever outcome its
\* database operation has.  Requests of users are never forced.  The last
\* conjunct is weak fairness of the join step, with its enabling condition
\* written out.
TrabajadorVivo ==
    \A i \in 1..MaxTareas :
        /\ WF_vars(ObtenerCruce(i))
        /\ WF_vars(\E falla \in BOOLEAN, falla2 \in BOOLEAN : GuardarProcesando(i, falla, falla2))
        /\ WF_vars(\E falla2 \in BOOLEAN : ObtenerReportes(i, falla2))
        /\ WF_vars(ObtenerTransacciones(i))
        /\ WF_vars(\E falla \in BOOLEAN, falla2 \in BOOLEAN : GuardarCompletado(i, falla, falla2))
        /\ \/ []<>(~PorCruzar(i))
           \/ []<><<\E falla \in BOOLEAN, falla2 \in BOOLEAN : CruzarYGuardar(i, falla, falla2)>>_vars

SpecTrabajador == Init /\ [][Next]_vars /\ TrabajadorVivo

(***************************************************************************)
(* Specification of the join as a function of its four collections         *)
(***************************************************************************)

SeqsUpTo(S, n) == UNION {[1..k -> S] : k \in 0..n}

VtexPool ==
    { V("7-01", "7-1", "Visa", "Carrefour Hiper", "Faturado"),
      V("7-01", "T-1", "Visa", "Samsung", "Pendiente"),
      V("8-01", "8-1", "MercadoPagoPro", "Hogar & Electro", "Pendiente"),
      V("8-01", "T-1", "MercadoPagoPro", "Carrefour Maxi", "Verificando Fatura"),
      V("NOSEPARATOR", "9-1", "Visa", "Carrefour Hiper", "Faturado"),
      V("7-ab", "7-1", "Visa", "Samsung", "Faturado") }

PaywayPool ==
    { P("7-1", "Aprobada"), P("T-1", "Pre autorizada"), P("8-1", "Vencida"),
      P("5-1", "Aprobada") }

CdpPool == { C("7", "Finalizado"), C("5", "Anulado sin factura") }

JanisPool == { C("7-01", "delivered"), C("5-01", "canceled") }

JoinInputs ==
    [vtex   : SeqsUpTo(VtexPool, MaxVtex),
     payway : SeqsUpTo(PaywayPool, MaxPayway),
     cdp    : SeqsUpTo(CdpPool, 1),
     janis  : SeqsUpTo(JanisPool, 1)]

InitJoin ==
    /\ datos \in JoinInputs
    /\ reportes = Plataformas
    /\ cruces = <<>>
    /\ filas = EmptyBag
    /\ tareas = <<>>
    /\ reintentos = <<>>
    /\ eliminados = 0
    /\ resultado = SinResultado

\* one call of cruzar_transacciones on the four collections
Cruzar ==
    /\ ~resultado.hecho
    /\ resultado' = [hecho |-> TRUE,
                     ok    |-> cruzar_transacciones(datos.vtex, datos.payway,
                                                    datos.cdp, datos.janis).ok,
                     filas |-> cruzar_transacciones(datos.vtex, datos.payway,
                                                    datos.cdp, datos.janis).filas]
    /\ UNCHANGED <<datos, reportes, cruces, filas, tareas, reintentos, eliminados>>

NextJoin == Cruzar

SpecJoin == InitJoin /\ [][NextJoin]_vars

(***************************************************************************)
(* Specification of the classifier as a function of its four records       *)
(***************************************************************************)

\* None or Some(r) for r in S
Opcional(S) == {None} \cup {Some(r) : r \in S}

EstadosVtex == {"Faturado", "Cancelado", "Pagamento Aprovado", "Pendiente", "Verificando Fatura"}

MediosPago == {"", "Visa", "MercadoPagoPro", "MercadoPagoPro QR"}

Sellers ==
    {"Carrefour Hiper", "Hogar & Electro", "Samsung", "HIPERMERCADO Trelew",
     "hogar & electro", "Hogar & Electro Express"}

EstadosPayway == {"Aprobada", "Pre autorizada", "Vencida"}

EstadosCdp == {"Finalizado", "Anulado sin factura", "DISPONIBLE EN DRIVE", "En preparacion"}

EstadosJanis == {"delivered", "canceled", "inDelivery", "Delivered", "picking"}

ClasificadorInputs ==
    [vtex   : Opcional({V("7-01", "7-1", mp, se, es) :
                           mp \in MediosPago, se \in Sellers, es \in EstadosVtex}),
     payway : Opcional({P("7-1", es) : es \in EstadosPayway}),
     cdp    : Opcional({C("7", es) : es \in EstadosCdp}),
     janis  : Opcional({C("7-01", es) : es \in EstadosJanis})]

InitClasificador ==
    /\ datos \in ClasificadorInputs
    /\ reportes = Plataformas
    /\ cruces = <<>>
    /\ filas = EmptyBag
    /\ tareas = <<>>
    /\ reintentos = <<>>
    /\ eliminados = 0
    /\ resultado = SinResultado

\* one call of calcular_resultado_cruce on the four records
Clasificar ==
    /\ ~resultado.hecho
    /\ resultado' = [hecho |-> TRUE,
                     etiqueta |-> calcular_resultado_cruce(datos.vtex, datos.payway,
                                                           datos.cdp, datos.janis)]
    /\ UNCHANGED <<datos, reportes, cruces, filas, tareas, reintentos, eliminados>>

NextClasificador == Clasificar

SpecClasificador == InitClasificador /\ [][NextClasificador]_vars

(***************************************************************************)
(* Specification of the key normalizer as a function of the order number   *)
(***************************************************************************)

\* order numbers '{prefix}-{suffix}' with a numeric suffix, kept in two parts
Prefijos == {"X", "1234567890123", "7", "", "0012", "12-34", "A-B"}

Sufijos == {"01", "10", "5", "007", "0", "00", "2", "100", "000123"}

InitNormalizador ==
    /\ datos \in [prefijo : Prefijos, sufijo : Sufijos]
    /\ reportes = Plataformas
    /\ cruces = <<>>
    /\ filas = EmptyBag
    /\ tareas = <<>>
    /\ reintentos = <<>>
    /\ eliminados = 0
    /\ resultado = SinResultado

\* one call of convertir_pedido_transaccion_payway
Normalizar ==
    /\ ~resultado.hecho
    /\ LET r == convertir_pedido_transaccion_payway(datos.prefijo \o "-" \o datos.sufijo)
       IN resultado' = [hecho |-> TRUE, ok |-> r.ok, val |-> r.val]
    /\ UNCHANGED <<datos, reportes, cruces, filas, tareas, reintentos, eliminados>>

NextNormalizador == Normalizar

SpecNormalizador == InitNormalizador /\ [][NextNormalizador]_vars

(***************************************************************************)
(* Specification of two runs on two Cruces: two create-run requests were   *)
(* accepted, and the worker processes run the two tasks concurrently       *)
(***************************************************************************)

InitDosCruces ==
    /\ datos \in Escenarios
    /\ reportes = Plataformas
    /\ \E s1 \in Selecciones, s2 \in Selecciones :
          /\ cruces = <<[vivo |-> TRUE, estado |-> PENDIENTE, fecha_realizado |-> NULL, refs |-> s1],
                        [vivo |-> TRUE, estado |-> PENDIENTE, fecha_realizado |-> NULL, refs |-> s2]>>
          /\ tareas = <<NuevaTarea(1, s1), NuevaTarea(2, s2)>>
    /\ filas = EmptyBag
    /\ reintentos = <<>>
    /\ eliminados = 0
    /\ resultado = SinResultado

NextDosCruces ==
    \/ \E i \in 1..MaxTareas : ObtenerCruce(i)
    \/ \E i \in 1..MaxTareas, falla \in BOOLEAN, falla2 \in BOOLEAN :
           GuardarProcesando(i, falla, falla2)
    \/ \E i \in 1..MaxTareas, falla2 \in BOOLEAN : ObtenerReportes(i, falla2)
    \/ \E i \in 1..MaxTareas : ObtenerTransacciones(i)
    \/ \E i \in 1..MaxTareas, falla \in BOOLEAN, falla2 \in BOOLEAN :
           CruzarYGuardar(i, falla, falla2)
    \/ \E i \in 1..MaxTareas, falla \in BOOLEAN, falla2 \in BOOLEAN :
           GuardarCompletado(i, falla, falla2)

SpecDosCruces == InitDosCruces /\ [][NextDosCruces]_vars

(***************************************************************************)
(* Specification of the lookups of the join: order numbers with more than  *)
(* one separator, and collections with two payment records                 *)
(***************************************************************************)

MaxPagos == 2

VtexClaves ==
    { V("7-01", "T-1", "Visa", "Carrefour Hiper", "Faturado"),
      V("12-34-01", "T-1", "Visa", "Carrefour Hiper", "Faturado"),
      V("5-03", "T-1-1", "Visa", "Samsung", "Pendiente"),
      V("5-10", "9-9", "Visa", "Hogar & Electro", "Faturado") }

PaywayClaves ==
    { P("7-1", "Aprobada"), P("7-2", "Rechazada"), P("T-1", "Pre autorizada"),
      P("T-1-1", "Aprobada"), P("T-2-2", "Vencida"), P("T-1-2", "Anulada"),
      P("5-3", "Aprobada"), P("5-10", "Aprobada"), P("5-20", "Vencida") }

CdpClaves == { C("12-34", "Finalizado"), C("12", "Anulado sin factura"), C("7", "Finalizado") }

InitJoinClaves ==
    /\ datos \in [vtex   : SeqsUpTo(VtexClaves, MaxVtex),
                  payway : SeqsUpTo(PaywayClaves, MaxPagos),
                  cdp    : SeqsUpTo(CdpClaves, 1),
                  janis  : {<<>>}]
    /\ reportes = Plataformas
    /\ cruces = <<>>
    /\ filas = EmptyBag
    /\ tareas = <<>>
    /\ reintentos = <<>>
    /\ eliminados = 0
    /\ resultado = SinResultado

\* one call of cruzar_transacciones; besides the list returned, the locals
\* payway and payway2 of each iteration of the loop are kept, by order number
CruzarClaves ==
    /\ ~resultado.hecho
    /\ LET r == cruzar_transacciones(datos.vtex, datos.payway, datos.cdp, datos.janis)
       IN resultado' =
              [hecho |-> TRUE, ok |-> r.ok, filas |-> r.filas,
               pagos |-> [p \in IF r.ok THEN todos_los_pedidos(datos.vtex) ELSE {} |->
                             buscar_payway(p, por_pedido(datos.vtex, p), datos.payway)]]
    /\ UNCHANGED <<datos, reportes, cruces, filas, tareas, reintentos, eliminados>>

NextJoinClaves == CruzarClaves

SpecJoinClaves == InitJoinClaves /\ [][NextJoinClaves]_vars

(***************************************************************************)
(* Specification of the classifier on order records in status             *)
(* 'Verificando Fatura'                                                    *)
(***************************************************************************)

EstadosPaywayVerificando ==
    {"Aprobada", "Pre autorizada", "Vencida", "Pre autorizada parcial", "pre autorizada"}

InitVerificando ==
    /\ datos \in [vtex   : {Some(V("7-01", "7-1", mp, se, "Verificando Fatura")) :
                               mp \in MediosPago, se \in Sellers},
                  payway : Opcional({P("7-1", es) : es \in EstadosPaywayVerificando}),
                  cdp    : Opcional({C("7", es) : es \in EstadosCdp}),
                  janis  : Opcional({C("7-01", es) : es \in EstadosJanis})]
    /\ reportes = Plataformas
    /\ cruces = <<>>
    /\ filas = EmptyBag
    /\ tareas = <<>>
    /\ reintentos = <<>>
    /\ eliminados = 0
    /\ resultado = SinResultado

SpecVerificando == InitVerificando /\ [][NextClasificador]_vars

(***************************************************************************)
(* Specification of TransaccionPayway.estado_no_cobrado                    *)
(***************************************************************************)

\* payment statuses: the two of the list, other statuses, and strings that
\* contain, extend or vary them
EstadosPaywayAmplios ==
    {pre \o base \o suf :
        pre  \in {"", "No ", "Re", "pre "},
        base \in {"Pre autorizada", "Vencida", "Aprobada", "Rechazada",
                  "pre autorizada", "Pre  autorizada", "Vencid"},
        suf  \in {"", " parcial", "s", " "}}

InitNoCobrado ==
    /\ datos \in {P("7-1", es) : es \in EstadosPaywayAmplios}
    /\ reportes = Plataformas
    /\ cruces = <<>>
    /\ filas = EmptyBag
    /\ tareas = <<>>
    /\ reintentos = <<>>
    /\ eliminados = 0
    /\ resultado = SinResultado

\* one call of estado_no_cobrado on the payment record
EvaluarNoCobrado ==
    /\ ~resultado.hecho
    /\ resultado' = [hecho |-> TRUE, valor |-> estado_no_cobrado(datos)]
    /\ UNCHANGED <<datos, reportes, cruces, filas, tareas, reintentos, eliminados>>

NextNoCobrado == EvaluarNoCobrado

SpecNoCobrado == InitNoCobrado /\ [][NextNoCobrado]_vars

(***************************************************************************)
(* Specification of the create-run request: GenerarCruceForm and the POST  *)
(* branch of generar_cruce_view                                            *)
(***************************************************************************)

\* what the request submits for a platform: nothing, the id of no report, or
\* the id of a report, given by the status of that report
NINGUNO == "ninguno"
INEXISTENTE == "inexistente"
CamposFormulario == {NINGUNO, INEXISTENTE, PENDIENTE, PROCESANDO, COMPLETADO, ERROR}

\* ModelChoiceField(queryset=Reporte*.objects.filter(estado='COMPLETADO'),
\* required=False): the empty choice and the reports of the queryset are valid
campo_valido(e) == e \in {NINGUNO, COMPLETADO}

\* the reports of cleaned_data: the valid fields that name a report
cleaned_data(form) == {p \in Plataformas : form[p] = COMPLETADO}

\* a form that accepts one selected report
is_valid_con_uno(form) ==
    /\ \A p \in Plataformas : campo_valido(form[p])
    /\ Cardinality(cleaned_data(form)) >= 1

\* form.is_valid(): no field error, and clean() raises ValidationError when
\* fewer than two reports are selected
is_valid(form) ==
    /\ \A p \in Plataformas : campo_valido(form[p])
    /\ Cardinality(cleaned_data(form)) >= 2

InitFormulario ==
    /\ datos \in [Plataformas -> CamposFormulario]
    /\ reportes = Plataformas
    /\ cruces = <<>>
    /\ filas = EmptyBag
    /\ tareas = <<>>
    /\ reintentos = <<>>
    /\ eliminados = 0
    /\ resultado = SinResultado

\* POST of the form: a valid form creates the Cruce PENDIENTE with the reports
\* of cleaned_data and enqueues the task (an exception of async_task is
\* caught); an invalid form is rendered again and nothing is created
generar_cruce_view_post(encola) ==
    /\ ~resultado.hecho
    /\ IF is_valid(datos)
       THEN /\ cruces' = Append(cruces, [vivo |-> TRUE, estado |-> PENDIENTE,
                                        fecha_realizado |-> NULL,
                                        refs |-> cleaned_data(datos)])
            /\ tareas' = IF encola
                         THEN Append(tareas, NuevaTarea(Len(cruces) + 1, cleaned_data(datos)))
                         ELSE tareas
            /\ resultado' = [hecho |-> TRUE, ok |-> TRUE]
       ELSE /\ UNCHANGED <<cruces, tareas>>
            /\ resultado' = [hecho |-> TRUE, ok |-> FALSE]
    /\ UNCHANGED <<datos, reportes, filas, reintentos, eliminados>>

NextFormulario == \E encola \in BOOLEAN : generar_cruce_view_post(encola)

SpecFormulario == InitFormulario /\ [][NextFormulario]_vars

(***************************************************************************)
(* Properties of the join (checked under SpecJoin)                         *)
(***************************************************************************)

\* a string of digits without its leading zeros, one digit at least
RECURSIVE SinCerosIniciales(_)
SinCerosIniciales(d) ==
    IF Len(d) > 1 /\ SubSeq(d, 1, 1) = "0" THEN SinCerosIniciales(SubSeq(d, 2, Len(d))) ELSE d

\* the order numbers of the order-platform collection given to the join
PedidosVtex == {datos.vtex[i].numero_pedido : i \in 1..Len(datos.vtex)}

\* an order number the key normalizer cannot convert: no '-' separator, or a
\* suffix that is not a number
Malformado(p) == ~Contains(p, "-") \/ ~PyInt(Split(p, "-")[2]).ok

\* number of rows returned for order number p
FilasDePedido(p) ==
    BagCardinality([f \in {g \in DOMAIN resultado.filas : g.numero_pedido = p}
                      |-> resultado.filas[f]])

\* C3: an order number the normalizer cannot convert is treated as "no payment
\* match" for that order only: the join still returns, with a row for it whose
\* estado_payway is 'N/A', and with the rows of every other order.
C3_MalformadoNoAborta ==
    resultado.hecho =>
        /\ resultado.ok
        /\ \A p \in PedidosVtex :
               \E f \in DOMAIN resultado.filas :
                   /\ f.numero_pedido = p
                   /\ Malformado(p) => f.estado_payway = "N/A"

\* C4: the join returns exactly one row per distinct numero_pedido of the
\* order-platform collection, no row for any other order number, and zero
\* rows, without raising, for an empty order-platform collection.
C4_UnaFilaPorPedido ==
    resultado.hecho =>
        /\ resultado.ok
        /\ \A p \in PedidosVtex : FilasDePedido(p) = 1
        /\ \A f \in DOMAIN resultado.filas : f.numero_pedido \in PedidosVtex
        /\ datos.vtex = <<>> => resultado.filas = EmptyBag

\* the part of p before its last '-'
AntesDelUltimoGuion(p) ==
    LET pos == {i \in 1..Len(p) : CharAt(p, i) = "-"}
    IN IF pos = {} THEN p
       ELSE SubSeq(p, 1, (CHOOSE i \in pos : \A j \in pos : j <= i) - 1)

\* the order number p has no record in the payment, fulfillment and
\* secondary-OMS collections, under any of the keys of the order
SinCoincidencia(p) ==
    /\ \A i \in 1..Len(datos.payway) :
           /\ datos.payway[i].numero_transaccion #
                  convertir_pedido_transaccion_payway(p).val
           /\ \A k \in 1..Len(datos.vtex) :
                  datos.vtex[k].numero_pedido = p =>
                      datos.payway[i].numero_transaccion # datos.vtex[k].numero_transaccion
    /\ \A i \in 1..Len(datos.cdp) :
           /\ datos.cdp[i].numero_pedido # AntesDelUltimoGuion(p)
           /\ datos.cdp[i].numero_pedido # Split(p, "-")[1]
    /\ \A i \in 1..Len(datos.janis) : datos.janis[i].numero_pedido # p

TodosNA(f) ==
    /\ f.estado_payway = "N/A"
    /\ f.estado_payway_2 = "N/A"
    /\ f.estado_cdp = "N/A"
    /\ f.estado_janis = "N/A"

EtiquetaSinCoincidencia(f) ==
    IF f.estado_vtex = "Verificando Fatura" THEN MsgLevantarTicket
    ELSE IF \E i \in 1..Len(KEYWORDS_FOOD) : Contains(Lower(f.seller), KEYWORDS_FOOD[i])
    THEN ""
    ELSE IF f.seller = "Hogar & Electro"
    THEN IF f.estado_vtex \notin {"Faturado", "Cancelado"} THEN MsgNoFacturado ELSE ""
    ELSE IF f.estado_vtex # "Faturado" THEN MsgMarketplace ELSE ""

DespuesDelUltimoGuion(p) == SubSeq(p, Len(AntesDelUltimoGuion(p)) + 2, Len(p))

\* the status of the last record of lista whose index is in idx, 'N/A' when
\* there is none
EstadoONA(lista, idx) ==
    IF idx = {} THEN "N/A" ELSE lista[CHOOSE i \in idx : \A j \in idx : j <= i].estado

\* the payment records under transaction number k
PagosBajo(k) == {i \in 1..Len(datos.payway) : datos.payway[i].numero_transaccion = k}

\* the payment records matched for order number p: under its normalized key,
\* else under the transaction number of its order record
PagosDe(p) ==
    LET clave == AntesDelUltimoGuion(p) \o "-" \o SinCerosIniciales(DespuesDelUltimoGuion(p))
        iv    == {i \in 1..Len(datos.vtex) : datos.vtex[i].numero_pedido = p}
        nt    == datos.vtex[CHOOSE i \in iv : \A j \in iv : j <= i].numero_transaccion
    IN IF PagosBajo(clave) # {} THEN PagosBajo(clave) ELSE PagosBajo(nt)

\* C16: in each emitted row, estado_payway, estado_cdp and estado_janis are
\* 'N/A' when no record of that platform was matched for the order and the
\* estado of the matched record otherwise; and the join fails only on an order
\* number the normalizer cannot convert, never because a match is missing.
C16_EstadoONoAplica ==
    resultado.hecho =>
        /\ ~resultado.ok => \E p \in PedidosVtex : Malformado(p)
        /\ \A f \in DOMAIN resultado.filas :
               LET p == f.numero_pedido
               IN /\ f.estado_payway = EstadoONA(datos.payway, PagosDe(p))
                  /\ f.estado_cdp =
                         EstadoONA(datos.cdp,
                                   {i \in 1..Len(datos.cdp) :
                                       datos.cdp[i].numero_pedido = AntesDelUltimoGuion(p)})
                  /\ f.estado_janis =
                         EstadoONA(datos.janis,
                                   {i \in 1..Len(datos.janis) :
                                       datos.janis[i].numero_pedido = p})

\* a join returned a row with a payment matched through the transaction
\* number and no fulfillment record, next to a row without payment
C16_Witness ==
    /\ resultado.hecho /\ resultado.ok
    /\ \E f \in DOMAIN resultado.filas :
           /\ f.estado_payway = "Pre autorizada"
           /\ f.estado_cdp = "N/A"
           /\ f.estado_janis = "delivered"
    /\ \E f \in DOMAIN resultado.filas : f.estado_payway = "N/A"

(***************************************************************************)
(* Properties of the life cycle (checked under Spec)                       *)
(***************************************************************************)

\* the positions of generar_cruce after the Cruce was loaded
DespuesDeCargar == {"cargado", "procesando", "reportes", "transacciones", "guardado"}

\* task i returns in this step
Retorna(i) == tareas[i].pc # "fin" /\ tareas'[i].pc = "fin"

\* task i returns in this step through the exception handler
RetornaPorExcepcion(i) ==
    /\ tareas[i].pc \in DespuesDeCargar
    /\ Retorna(i)
    /\ tareas'[i].log # Append(tareas[i].log, COMPLETADO)

\* C1: an exception raised in generar_cruce after the Cruce was loaded makes the
\* call return False (nothing else reaches the caller); either the save of
\* ERROR succeeded and the persisted status of the Cruce is ERROR, or that save
\* failed, the failure is swallowed and the Cruce table is left as it was.
C1_ExcepcionDevuelveFalse ==
    [][\A i \in 1..Len(tareas) :
          RetornaPorExcepcion(i) =>
              /\ tareas'[i].ret = "False"
              /\ \/ /\ tareas'[i].log = Append(tareas[i].log, ERROR)
                    /\ cruces'[tareas[i].cruce_id].vivo
                    /\ cruces'[tareas[i].cruce_id].estado = ERROR
                 \/ /\ tareas'[i].log = tareas[i].log
                    /\ cruces' = cruces]_vars

\* a run whose join raised returned False and left the Cruce in ERROR
C1_Witness ==
    \E i \in 1..Len(tareas) :
        /\ tareas[i].pc = "fin"
        /\ tareas[i].ret = "False"
        /\ tareas[i].log = <<CARGADO, PROCESANDO, ERROR>>
        /\ \E k \in 1..Len(datos.vtex) : Malformado(datos.vtex[k].numero_pedido)
        /\ Existe(tareas[i].cruce_id)
        /\ cruces[tareas[i].cruce_id].estado = ERROR

\* C2: a run on an existing Cruce persists PROCESANDO before any report is
\* loaded; when the reports, the join and the rows succeed, the save that
\* follows persists COMPLETADO with fecha_realizado = today and the call
\* returns True; and True is returned in no other way.
C2_ExitoCompletado ==
    [][\A i \in 1..Len(tareas) :
          LET t == tareas[i]
              u == tareas'[i]
              c == t.cruce_id
          IN /\ (t.pc = "cargado" /\ u.pc = "procesando") =>
                    /\ cruces'[c].vivo /\ cruces'[c].estado = PROCESANDO
                    /\ u.log = <<CARGADO, PROCESANDO>>
             /\ (t.pc # u.pc /\ u.pc \in {"reportes", "transacciones", "guardado"}) =>
                    /\ t.log = <<CARGADO, PROCESANDO>>
                    /\ u.log = t.log
             /\ (t.pc = "guardado" /\ u.pc = "fin" /\ ~RetornaPorExcepcion(i)) =>
                    /\ cruces'[c].vivo
                    /\ cruces'[c].estado = COMPLETADO
                    /\ cruces'[c].fecha_realizado = HOY
                    /\ u.ret = "True"
             /\ (u.ret = "True" /\ t.ret # "True") =>
                    /\ t.pc = "guardado"
                    /\ u.log = <<CARGADO, PROCESANDO, COMPLETADO>>]_vars

\* a run returned True with rows written, and its Cruce is COMPLETADO with the
\* date of the day
C2_Witness ==
    \E i \in 1..Len(tareas) :
        /\ tareas[i].pc = "fin"
        /\ tareas[i].ret = "True"
        /\ Existe(tareas[i].cruce_id)
        /\ cruces[tareas[i].cruce_id].estado = COMPLETADO
        /\ cruces[tareas[i].cruce_id].fecha_realizado = HOY
        /\ FilasDe(tareas[i].cruce_id) # EmptyBag

\* the order of the statuses: PENDIENTE, PROCESANDO, then COMPLETADO or ERROR
Rango(e) == IF e = PENDIENTE THEN 0 ELSE IF e = PROCESANDO THEN 1 ELSE 2

\* C6: the persisted status of a Cruce never moves backward in the order
\* PENDIENTE, PROCESANDO, then COMPLETADO or ERROR; the only backward step is
\* ERROR to PENDIENTE (the manual retry).
C6_EstadoNoRetrocede ==
    [][\A c \in 1..Len(cruces) :
          (cruces[c].vivo /\ cruces'[c].vivo
             /\ Rango(cruces'[c].estado) < Rango(cruces[c].estado)) =>
              (cruces[c].estado = ERROR /\ cruces'[c].estado = PENDIENTE)]_vars

\* C7: in every persisted state of a Cruce, fecha_realizado is non-null only
\* while estado is COMPLETADO.
C7_FechaSoloCompletado ==
    \A c \in 1..Len(cruces) :
        (cruces[c].vivo /\ cruces[c].fecha_realizado # NULL) =>
            cruces[c].estado = COMPLETADO

\* C8: generar_cruce for an id that matches no Cruce returns False and changes
\* no persisted state: no status is written, no report is loaded, no row is
\* created.
C8_NoEncontrado ==
    [][\A i \in 1..Len(tareas) :
          (tareas[i].pc = "cola" /\ ~Existe(tareas[i].cruce_id)
             /\ tareas'[i] # tareas[i]) =>
              /\ tareas'[i].pc = "fin"
              /\ tareas'[i].ret = "False"
              /\ tareas'[i].log = <<>>
              /\ tareas'[i].con_datos = {}
              /\ UNCHANGED <<cruces, filas, reportes>>]_vars

\* a task whose Cruce was deleted before it ran returned False without loading
\* anything
C8_Witness ==
    \E i \in 1..Len(tareas) :
        /\ tareas[i].pc = "fin"
        /\ tareas[i].ret = "False"
        /\ tareas[i].log = <<>>
        /\ ~Existe(tareas[i].cruce_id)

\* C9: a retry of a Cruce whose status is not ERROR leaves the Cruce, its rows
\* and the queue unchanged; a retry of a Cruce in ERROR sets its status to
\* PENDIENTE and enqueues exactly one task with the current report ids of the
\* Cruce; and no task is ever enqueued by a run itself.
C9_Reintento ==
    [][/\ \A c \in 1..Len(cruces) :
             (Len(reintentos') = Len(reintentos) + 1 /\ reintentos'[Len(reintentos')].cruce_id = c
                /\ cruces[c].estado # ERROR) =>
                 /\ reintentos'[Len(reintentos')].pc = "rechazado"
                 /\ UNCHANGED <<cruces, filas, tareas>>
       /\ \A r \in 1..Len(reintentos) :
             (reintentos[r].pc = "leido" /\ reintentos'[r].pc # "leido") =>
                 LET c == reintentos[r].cruce_id
                 IN /\ cruces'[c].estado = PENDIENTE
                    /\ tareas' = Append(tareas, NuevaTarea(c, cruces'[c].refs))
       /\ Len(tareas') > Len(tareas) =>
             (reintentos' # reintentos \/ Len(cruces') > Len(cruces))]_vars

\* C10 as stated: the report references of a Cruce never change after its
\* creation, under run execution, retry or deletion of a report.
C10_ReferenciasFijas ==
    [][\A c \in 1..Len(cruces) :
          (cruces[c].vivo /\ cruces'[c].vivo) => cruces'[c].refs = cruces[c].refs]_vars

\* C10 (amended): run execution and retry never change the report references
\* of a Cruce; the deletion of a report sets the references to that report to
\* NULL and changes no other reference.
C10_ReferenciasSoloSetNull ==
    [][\A c \in 1..Len(cruces) :
          (cruces[c].vivo /\ cruces'[c].vivo) =>
              cruces'[c].refs = cruces[c].refs \ (reportes \ reportes')]_vars

\* a Cruce whose run has returned no longer references a report whose id the
\* task was given at creation, and still references another one
C10_Witness ==
    \E i \in 1..Len(tareas) :
        /\ tareas[i].pc = "fin"
        /\ Existe(tareas[i].cruce_id)
        /\ cruces[tareas[i].cruce_id].refs # tareas[i].args
        /\ cruces[tareas[i].cruce_id].refs # {}
        /\ \E r \in 1..Len(reintentos) : reintentos[r].pc = "encolado"

\* the platforms for which task t holds no record: report id None, report
\* deleted meanwhile, or report without records
SinRegistros(t) == {p \in Plataformas : p \notin t.con_datos \/ datos[p] = <<>>}

\* C17: a run with report ids that are None, or with a report that has no
\* records, does not fail for that reason: the lookup of the reports raises
\* only for a given id whose report does not exist, the loading of the lists
\* never raises, an order-platform side without records gives zero rows and
\* no failure, every row written has 'N/A' in the status fields of the
\* platforms without records, and the run that goes through ends COMPLETADO
\* and returns True.
C17_DatosParciales ==
    [][\A i \in 1..Len(tareas) :
          LET t == tareas[i]
              u == tareas'[i]
              c == t.cruce_id
              nuevas == filas' (-) filas
          IN /\ (t.pc = "procesando" /\ u.pc # t.pc /\ t.args \subseteq reportes) =>
                    u.pc = "reportes"
             /\ (t.pc = "reportes" /\ u.pc # t.pc) => u.pc = "transacciones"
             /\ (t.pc = "transacciones" /\ u.pc # t.pc /\ "vtex" \in SinRegistros(t)) =>
                    u.pc = "guardado" /\ filas' = filas
             /\ (t.pc = "transacciones" /\ u.pc = "guardado") =>
                    \A g \in DOMAIN nuevas :
                        /\ g.cruce = c
                        /\ "payway" \in SinRegistros(t) =>
                               g.fila.estado_payway = "N/A" /\ g.fila.estado_payway_2 = "N/A"
                        /\ "cdp" \in SinRegistros(t) => g.fila.estado_cdp = "N/A"
                        /\ "janis" \in SinRegistros(t) => g.fila.estado_janis = "N/A"
             /\ (t.pc = "guardado" /\ u.pc = "fin" /\ ~RetornaPorExcepcion(i)) =>
                    /\ u.ret = "True"
                    /\ cruces'[c].vivo /\ cruces'[c].estado = COMPLETADO]_vars

\* a run given only the order-platform and payment reports returned True: its
\* Cruce is COMPLETADO and its rows have 'N/A' for the two absent platforms
C17_Witness ==
    \E i \in 1..Len(tareas) :
        /\ tareas[i].pc = "fin"
        /\ tareas[i].ret = "True"
        /\ tareas[i].args = {"vtex", "payway"}
        /\ Existe(tareas[i].cruce_id)
        /\ cruces[tareas[i].cruce_id].estado = COMPLETADO
        /\ FilasDe(tareas[i].cruce_id) # EmptyBag
        /\ \A g \in DOMAIN FilasDe(tareas[i].cruce_id) :
               g.fila.estado_cdp = "N/A" /\ g.fila.estado_janis = "N/A"
        /\ \E g \in DOMAIN FilasDe(tareas[i].cruce_id) : g.fila.estado_payway = "Aprobada"

C20_UnaFilaPorPedidoTrasReintentos ==
    \A g \in DOMAIN filas :
        /\ filas[g] = 1
        /\ \A h \in DOMAIN filas :
               h.cruce = g.cruce /\ h.fila.numero_pedido = g.fila.numero_pedido => h = g

\* C21: while the worker process is not terminated, every Cruce whose run
\* entered PROCESANDO eventually has persisted status COMPLETADO or ERROR
\* (or is deleted): no Cruce stays in PROCESANDO.
C21_ProcesandoTermina ==
    \A c \in 1..MaxCruces :
        (Existe(c) /\ cruces[c].estado = PROCESANDO)
            ~> (~Existe(c) \/ cruces[c].estado \in {COMPLETADO, ERROR})

\* C22: concurrent retry requests for the same Cruce in ERROR enqueue at most
\* one task: at no time do two tasks that have not returned belong to the
\* same Cruce.
C22_UnaTareaPorCruce ==
    \A c \in 1..Len(cruces) :
        Cardinality({i \in 1..Len(tareas) : tareas[i].cruce_id = c /\ tareas[i].pc # "fin"}) <= 1

(***************************************************************************)
(* Properties of the lookups of the join (checked under SpecJoinClaves)    *)
(***************************************************************************)

\* C25: for each order number, the fulfillment record is looked up under the
\* order number with everything from its last '-' onward removed, also when
\* the order number has more than one '-': estado_cdp is the status of the
\* record under that key, 'N/A' when there is none.
C25_CdpHastaUltimoGuion ==
    resultado.hecho /\ resultado.ok =>
        \A f \in DOMAIN resultado.filas :
            f.estado_cdp =
                EstadoONA(datos.cdp,
                          {i \in 1..Len(datos.cdp) :
                              datos.cdp[i].numero_pedido = AntesDelUltimoGuion(f.numero_pedido)})

\* the row emitted for order number p
FilaDe(p) == CHOOSE f \in DOMAIN resultado.filas : f.numero_pedido = p

\* the payment record the join keeps under transaction number k, if any
PagoBajo(k) ==
    IF PagosBajo(k) = {} THEN None
    ELSE Some(datos.payway[CHOOSE i \in PagosBajo(k) : \A j \in PagosBajo(k) : j <= i])

TerminaEnGuionUno(k) == Len(k) >= 2 /\ SubSeq(k, Len(k) - 1, Len(k)) = "-1"

\* k with its trailing '-1' replaced by '-2', every other character unchanged
ConGuionDosFinal(k) == SubSeq(k, 1, Len(k) - 2) \o "-2"

\* C26: when a primary payment match is found under a key that ends in '-1',
\* the second payment record is looked up under that key with only its
\* trailing '-1' replaced by '-2'; estado_payway_2 is the status of the record
\* under that key and 'N/A' when there is none.
C26_SegundoPagoGuionFinal ==
    resultado.hecho /\ resultado.ok =>
        \A p \in DOMAIN resultado.pagos :
            LET pw == resultado.pagos[p]
            IN IsSome(pw.payway) /\ TerminaEnGuionUno(pw.payway[1].numero_transaccion) =>
                   /\ pw.payway2 = PagoBajo(ConGuionDosFinal(pw.payway[1].numero_transaccion))
                   /\ FilaDe(p).estado_payway_2 =
                          EstadoONA(datos.payway,
                                    PagosBajo(ConGuionDosFinal(pw.payway[1].numero_transaccion)))

\* C27: in every emitted row, the second payment status never comes from the
\* payment record the primary payment status comes from: the two lookups
\* return records of two different payment transactions, or the second none.
C27_SegundoPagoDistinto ==
    resultado.hecho /\ resultado.ok =>
        \A p \in DOMAIN resultado.pagos :
            LET pw == resultado.pagos[p]
            IN IsSome(pw.payway2) =>
                   pw.payway2[1].numero_transaccion # pw.payway[1].numero_transaccion

\* C28: a payment record under the normalized key of the order number is the
\* primary payment match even when another record exists under the
\* transaction number of the order record; the transaction number is used
\* only when the normalized key misses; when both miss there is no match and
\* estado_payway is 'N/A'.
C28_ClaveNormalizadaPrimero ==
    resultado.hecho /\ resultado.ok =>
        \A p \in DOMAIN resultado.pagos :
            LET clave == convertir_pedido_transaccion_payway(p).val
                iv    == {i \in 1..Len(datos.vtex) : datos.vtex[i].numero_pedido = p}
                nt    == datos.vtex[CHOOSE i \in iv : \A j \in iv : j <= i].numero_transaccion
                pw    == resultado.pagos[p]
            IN /\ PagosBajo(clave) # {} => pw.payway = PagoBajo(clave)
               /\ PagosBajo(clave) = {} => pw.payway = PagoBajo(nt)
               /\ FilaDe(p).estado_payway =
                      IF IsSome(pw.payway) THEN pw.payway[1].estado ELSE "N/A"
               /\ PagosBajo(clave) = {} /\ PagosBajo(nt) = {} =>
                      ~IsSome(pw.payway) /\ FilaDe(p).estado_payway = "N/A"

\* an order whose normalized key and whose transaction number both have a
\* payment record: the record under the normalized key is the primary match
C28_Witness ==
    /\ resultado.hecho /\ resultado.ok
    /\ datos.vtex = <<V("7-01", "T-1", "Visa", "Carrefour Hiper", "Faturado")>>
    /\ datos.payway = <<P("T-1", "Pre autorizada"), P("7-1", "Aprobada")>>
    /\ resultado.pagos["7-01"].payway = Some(P("7-1", "Aprobada"))
    /\ FilaDe("7-01").estado_payway = "Aprobada"

(***************************************************************************)
(* Properties of the 'Verificando Fatura' rule (checked under              *)
(* SpecVerificando)                                                        *)
(***************************************************************************)

\* a payment record with status exactly 'Pre autorizada' is present
HayPreautorizada(payway) == IsSome(payway) /\ payway[1].estado = "Pre autorizada"

\* C29: for an order record in status 'Verificando Fatura' the label depends
\* only on whether a payment record with status exactly 'Pre autorizada' is
\* present: every call returns the label of the call with the same presence
\* and no seller, payment channel, fulfillment or secondary-OMS data, and the
\* label is one of the two of the rule, never one of a category rule.
C29_SoloPreautorizada ==
    resultado.hecho =>
        /\ resultado.etiqueta =
               calcular_resultado_cruce(
                   Some(V("7-01", "7-1", "", "", "Verificando Fatura")),
                   IF HayPreautorizada(datos.payway)
                   THEN Some(P("7-1", "Pre autorizada")) ELSE None,
                   None, None)
        /\ resultado.etiqueta \in {MsgCobrarManual, MsgLevantarTicket}
        /\ resultado.etiqueta = MsgCobrarManual <=> HayPreautorizada(datos.payway)

\* an electro order paid by wallet, delivered, with a payment whose status
\* only contains 'Pre autorizada': the label is the one of the absent payment
C29_Witness ==
    /\ resultado.hecho
    /\ datos.vtex[1].seller = "Hogar & Electro"
    /\ datos.vtex[1].medio_pago = "MercadoPagoPro"
    /\ datos.payway = Some(P("7-1", "Pre autorizada parcial"))
    /\ datos.cdp = Some(C("7", "Finalizado"))
    /\ datos.janis = Some(C("7-01", "canceled"))
    /\ resultado.etiqueta = MsgLevantarTicket

(***************************************************************************)
(* Properties of estado_no_cobrado (checked under SpecNoCobrado)           *)
(***************************************************************************)

EstadoDejado(log) == IF Len(log) <= 1 THEN PENDIENTE ELSE log[Len(log)]

\* the rows of the join of the reports given to task i, bound to its Cruce
FilasPropias(i) ==
    LET sel  == tareas[i].args
        de(p) == IF p \in sel THEN datos[p] ELSE <<>>
        r    == cruzar_transacciones(de("vtex"), de("payway"), de("cdp"), de("janis"))
    IN IF r.ok THEN FilasNuevas(tareas[i].cruce_id, r.filas) ELSE EmptyBag

\* C23: under any interleaving of two runs on two different Cruces, a step of
\* a run writes rows of its own Cruce only and the status of its own Cruce
\* only, and once a run returned, the status and the rows of its Cruce are
\* those of the run alone: the last status it saved, and the rows of the join
\* of its own reports (all of them when it returned True).
C23_EjecucionesIndependientes ==
    [][ \A i \in 1..Len(tareas) :
            /\ tareas'[i] # tareas[i] =>
                  /\ \A d \in 1..Len(cruces) : d # tareas[i].cruce_id => cruces'[d] = cruces[d]
                  /\ \A g \in DOMAIN filas' :
                        /\ g \in DOMAIN filas => filas'[g] >= filas[g]
                        /\ (g \notin DOMAIN filas \/ filas'[g] > filas[g]) => g.cruce = tareas[i].cruce_id
                  /\ DOMAIN filas \subseteq DOMAIN filas'
            /\ tareas'[i].pc = "fin" =>
                  /\ cruces'[tareas'[i].cruce_id].estado = EstadoDejado(tareas'[i].log)
                  /\ FilasDe(tareas[i].cruce_id)' \in {EmptyBag, FilasPropias(i)}
                  /\ tareas'[i].ret = "True" =>
                        /\ cruces'[tareas'[i].cruce_id].estado = COMPLETADO
                        /\ FilasDe(tareas[i].cruce_id)' = FilasPropias(i)
      ]_vars

\* both runs returned True on different selections of reports, and the rows
\* of the two Cruces differ
C23_Witness ==
    /\ Len(tareas) = 2 /\ Len(cruces) = 2
    /\ tareas[1].pc = "fin" /\ tareas[1].ret = "True"
    /\ tareas[2].pc = "fin" /\ tareas[2].ret = "True"
    /\ tareas[1].args = {"vtex", "payway"} /\ tareas[2].args = Plataformas
    /\ cruces[1].estado = COMPLETADO /\ cruces[2].estado = COMPLETADO
    /\ FilasDe(1) # EmptyBag /\ FilasDe(2) # EmptyBag
    /\ \E g \in DOMAIN FilasDe(2) : g.fila.estado_cdp # "N/A"
    /\ \A g \in DOMAIN FilasDe(1) : g.fila.estado_cdp = "N/A"

C18_AlMenosDosCompletados ==
    resultado.hecho =>
        /\ \A c \in 1..Len(cruces) :
               /\ Cardinality(cruces[c].refs) >= 2
               /\ \A p \in cruces[c].refs : datos[p] = COMPLETADO
        /\ \A i \in 1..Len(tareas) :
               tareas[i].cruce_id \in 1..Len(cruces) /\ tareas[i].args = cruces[tareas[i].cruce_id].refs
        /\ Cardinality({p \in Plataformas : datos[p] # NINGUNO}) < 2 =>
               cruces = <<>> /\ tareas = <<>>

\* a request that selected exactly two completed reports created a Cruce that
\* references them and enqueued its task
C18_Witness ==
    /\ resultado.hecho
    /\ datos = [p \in Plataformas |-> IF p \in {"payway", "janis"} THEN COMPLETADO ELSE NINGUNO]
    /\ Len(cruces) = 1 /\ cruces[1].refs = {"payway", "janis"}
    /\ Len(tareas) = 1 /\ tareas[1].args = {"payway", "janis"}

(***************************************************************************)
(* Properties of the classifier (checked under SpecClasificador)           *)
(***************************************************************************)

\* The decision table, written from its description: the derived signals ...
TablaEntregado(cdp, janis) ==
    \/ /\ IsSome(cdp)
       /\ \E kw \in {"finalizado", "disponible en drive", "disponible en sucursal",
                     "disponible en sede", "pendiente de despacho",
                     "pendiente de de envio a pup", "recepcion pendiente"} :
              Contains(Lower(cdp[1].estado), kw)
    \/ /\ IsSome(janis)
       /\ \E kw \in {"delivered", "inDelivery", "readyForDelivery",
                     "readyForInternalDistribution", "en auditoria",
                     "procesandoPromociones"} :
              Contains(janis[1].estado, kw)

TablaAnulado(cdp, janis) ==
    \/ IsSome(cdp) /\ cdp[1].estado = "Anulado sin factura"
    \/ IsSome(janis) /\ janis[1].estado = "canceled"

TablaNoCobrado(payway) ==
    IsSome(payway) /\ payway[1].estado \in {"Pre autorizada", "Vencida"}

\* ... the categories ...
TablaFood(v) ==
    \E kw \in {"carrefour", "hiper", "maxi", "market", "express", "trelew"} :
        Contains(Lower(v.seller), kw)

TablaElectro(v) == v.seller = "Hogar & Electro"

TablaMarketplace(v) == ~TablaElectro(v) /\ ~TablaFood(v)

TablaBilletera(v) ==
    Contains(v.medio_pago, "MercadoPagoPro") /\ ~TablaElectro(v) /\ ~TablaMarketplace(v)

\* ... and the rows, first match wins
TablaEtiqueta(v, payway, cdp, janis) ==
    LET entregado == TablaEntregado(cdp, janis)
        anulado   == TablaAnulado(cdp, janis)
        facturado == v.estado = "Faturado"
    IN CASE TablaBilletera(v) ->
              (CASE entregado /\ ~facturado -> "Verificar, entregado pero no facturado"
                 [] anulado /\ v.estado = "Pagamento Aprovado" ->
                        "Verificar, anulado pero no cancelado en vtex"
                 [] OTHER -> "")
         [] TablaFood(v) ->
              (CASE entregado /\ ~facturado -> "Verificar, entregado pero no facturado"
                 [] entregado /\ facturado /\ TablaNoCobrado(payway) ->
                        "Verificar, no cobrado en Payway"
                 [] anulado /\ v.estado = "Pagamento Aprovado" ->
                        "Verificar, anulado pero no cancelado en vtex"
                 [] anulado /\ IsSome(payway) /\ payway[1].estado = "Pre autorizada" ->
                        "Verificar, anulado pero preautorizado en payway"
                 [] OTHER -> "")
         [] TablaElectro(v) ->
              (CASE TablaNoCobrado(payway) -> "Verificar, no cobrado en Payway"
                 [] v.estado \notin {"Faturado", "Cancelado"} -> "Verificar, no facturado"
                 [] OTHER -> "")
         [] OTHER ->
              IF ~facturado THEN "Avisar a marketplace" ELSE ""

C12_VerificandoFacturaSinPago ==
    (resultado.hecho /\ IsSome(datos.vtex) /\ datos.vtex[1].estado = "Verificando Fatura"
       /\ datos.payway = None) =>
        /\ Contains(resultado.etiqueta, "Verificar")
        /\ Contains(resultado.etiqueta, "verificando factura")

\* the condition of the digital-wallet branch of the classifier
categoria_billetera(v) ==
    /\ v.medio_pago # ""
    /\ Contains(v.medio_pago, "MercadoPagoPro")
    /\ ~(pedido_electro(v) \/ pedido_marketplace(v))

\* the category predicates the order record v satisfies
Categorias(v) ==
    {k \in {"billetera", "food", "electro", "marketplace"} :
        \/ k = "billetera" /\ categoria_billetera(v)
        \/ k = "food" /\ pedido_food(v)
        \/ k = "electro" /\ pedido_electro(v)
        \/ k = "marketplace" /\ pedido_marketplace(v)}

\* C13 as stated: for every seller and payment channel, exactly one of the
\* four category predicates (digital wallet, food, electronics, marketplace)
\* is satisfied.
C13_UnaCategoria ==
    (resultado.hecho /\ IsSome(datos.vtex)) => Cardinality(Categorias(datos.vtex[1])) = 1

\* C13 (amended): exactly one of the food, electronics and marketplace
\* predicates is satisfied, marketplace when neither of the others holds; the
\* digital-wallet predicate is satisfied exactly by the orders paid through
\* MercadoPagoPro that satisfy the food predicate, so it never holds alone.
C13_CategoriasExcluyentes ==
    (resultado.hecho /\ IsSome(datos.vtex)) =>
        LET v == datos.vtex[1]
        IN /\ Cardinality(Categorias(v) \ {"billetera"}) = 1
           /\ ("marketplace" \in Categorias(v)) <=>
                  (v.seller # "Hogar & Electro" /\ ~TablaFood(v))
           /\ ("billetera" \in Categorias(v)) <=>
                  (Contains(v.medio_pago, "MercadoPagoPro") /\ "food" \in Categorias(v))

\* an invoiced food order paid through MercadoPagoPro, delivered, with an
\* expired payment: both predicates hold and the wallet rules give no label
C13_Witness ==
    /\ resultado.hecho
    /\ IsSome(datos.vtex)
    /\ Categorias(datos.vtex[1]) = {"billetera", "food"}
    /\ datos.vtex[1].estado = "Faturado"
    /\ IsSome(datos.payway) /\ datos.payway[1].estado = "Vencida"
    /\ IsSome(datos.janis) /\ datos.janis[1].estado = "delivered"
    /\ resultado.etiqueta = ""

\* C14: for an order of the seller 'Hogar & Electro' with status 'Cancelado',
\* the classifier never returns a label containing 'no facturado', whatever
\* the payment, fulfillment and secondary-OMS records.
C14_ElectroCanceladoExento ==
    (resultado.hecho /\ IsSome(datos.vtex) /\ datos.vtex[1].seller = "Hogar & Electro"
       /\ datos.vtex[1].estado = "Cancelado") =>
        ~Contains(resultado.etiqueta, "no facturado")

\* a cancelled electronics order with an approved payment and a delivered
\* fulfillment record was classified without label
C14_Witness ==
    /\ resultado.hecho
    /\ IsSome(datos.vtex) /\ datos.vtex[1].seller = "Hogar & Electro"
    /\ datos.vtex[1].estado = "Cancelado"
    /\ IsSome(datos.payway) /\ datos.payway[1].estado = "Aprobada"
    /\ IsSome(datos.cdp) /\ datos.cdp[1].estado = "Finalizado"
    /\ resultado.etiqueta = ""

(***************************************************************************)
(* Properties of the key normalizer (checked under SpecNormalizador)       *)
(***************************************************************************)

\* C15: for every input '{prefix}-{suffix}' with a numeric suffix, the
\* normalizer does not fail and returns '{prefix}-{n}', n being the suffix
\* without its leading zeros; the prefix is left unchanged.
C15_SufijoSinCeros ==
    resultado.hecho =>
        /\ resultado.ok
        /\ resultado.val = datos.prefijo \o "-" \o SinCerosIniciales(datos.sufijo)

====
